---- MODULE Spec2Model ----
(***************************************************************************)
(* State model of the SafeAI dashboard component in its three variants:    *)
(*   "part_001"  src/unnamed/part_001  statistics folded locally           *)
(*   "part_000"  src/unnamed/part_000  local history, statistics from the  *)
(*                                     server's /stats                     *)
(*   "App"       src/src/App.tsx       statistics and history both from    *)
(*                                     the server                          *)
(* A state is the component's useState cells, the analysis requests that   *)
(* are outstanding (each with the values its closure captured when the     *)
(* handler was invoked), the outstanding /stats and /history requests, and *)
(* history variables (counters of what has happened) used to state the     *)
(* properties.                                                             *)
(*                                                                         *)
(* Numbers: risk scores are drawn from integers; avgRiskScore is an exact  *)
(* rational <<numerator, denominator>> in lowest terms, so the statements  *)
(* about the mean are about the arithmetic of the update formula, not      *)
(* about floating-point rounding.                                          *)
(***************************************************************************)
EXTENDS Integers, Sequences, FiniteSets, TLC

VARIABLES
    variant,         \* which of the three components this run is
    regime,          \* how this run is bounded: "deep" or "wide"
    mounted,         \* the component is mounted (FALSE after teardown)
    input,           \* input / inputText
    isAnalyzing,     \* isAnalyzing / analyzing
    error,           \* error (part_000, part_001); None = null
    latestResult,    \* latestResult / result; JNull = null
    history,         \* history, newest first
    totalAnalyses,   \* part_001
    threatsDetected, \* part_001
    avgRiskScore,    \* part_001, <<num, den>>
    stats,           \* part_000 / App: what setStats last stored
    inflight,        \* outstanding POST /analyze requests
    statsReqs,       \* outstanding GET /stats requests
    histReqs,        \* number of outstanding GET /history requests (App)
    server,          \* the remote service: analyses it has answered
    alerts,          \* number of alert() dialogs raised (App)
    posts,           \* history variable: POST /analyze requests sent
    accepted,        \* history variable: handler calls that passed the text guard
    successes,       \* history variable: completions whose try block ran to its end
    failures,        \* history variable: completions that ended in the catch block
    sumRisk,         \* history variable: sum of the risk scores of the successes
    sumThreats,      \* history variable: sum of the threat counts of the successes
    overlapped,      \* history variable: some call was accepted while another was outstanding
    lateEffects,     \* history variable: an alert or a request was raised after teardown
    score,           \* the argument of a call of getSafetyLevel, <<num, den>>
    level,           \* what that call returned
    row              \* the text a history row shows for an entry, once rendered

vars == <<variant, regime, mounted, input, isAnalyzing, error, latestResult, history,
          totalAnalyses, threatsDetected, avgRiskScore, stats, inflight,
          statsReqs, histReqs, server, alerts, posts, accepted, successes,
          failures, sumRisk, sumThreats, overlapped, lateEffects, score, level,
          row>>

(***************************************************************************)
(* Bounds of the exploration.                                              *)
(* A run is explored in one of two regimes.  A deep run is long enough to  *)
(* fill the history and evict from it, with one request at a time, one     *)
(* non-blank text and a service that answers with a complete body or an    *)
(* error status.  A wide run is short, with every text, every kind of      *)
(* answer and overlapping handler invocations.                             *)
(***************************************************************************)
DeepCalls == 7       \* accepted handler calls in a deep run
WideCalls == 2       \* accepted handler calls in a wide run
MaxInflight == 2     \* analysis requests outstanding at once in a wide run
MaxAlerts == 1       \* alert dialogs per run
MaxPending == 2      \* /stats (and /history) requests outstanding at once
ScoreSpan == 100     \* scores are drawn from [0, 100] and this many tenths beyond
RowSpan == 4         \* row texts are this much shorter or longer than the row limit

(***************************************************************************)
(* Program constants.                                                      *)
(***************************************************************************)
KeepLast == 5        \* part_001: next.slice(0, 5)
KeepLast0 == 5       \* part_000: [data, ...prev].slice(0, 5)
HistoryLimit == 10   \* App: /history?limit=10
MaxLength == 10000   \* part_001: <textarea maxLength={10000}>
MaxLength0 == 10000  \* part_000: <textarea maxLength={10000}>
TooLong == 10000     \* App: inputText.length > 10000
RowLimit == 120      \* part_001: item.text.length > 120 ? item.text.slice(0, 120) + "…"
RowLimit0 == 80      \* part_000: item.original_text.length > 80 ? ....slice(0, 80) + "..."

Variants == {"part_001", "part_000", "App"}

\* The runs explored: App.tsx keeps no local history, so it has no deep runs.
Runs == (Variants \X {"wide"}) \cup ({"part_001", "part_000"} \X {"deep"})

Deep == regime = "deep"
MaxCalls == IF Deep THEN DeepCalls ELSE WideCalls
InflightCap == IF Deep THEN 1 ELSE MaxInflight
PendingCap == IF Deep THEN 1 ELSE MaxPending

(***************************************************************************)
(* Optional values: a field that may be undefined, or a state that may be  *)
(* null.  a ?? b is Coalesce(a, b).                                        *)
(***************************************************************************)
None == <<>>
Some(v) == <<v>>
Coalesce(o, d) == IF o = None THEN d ELSE o[1]

Min(a, b) == IF a <= b THEN a ELSE b

RECURSIVE GCD(_, _)
GCD(a, b) == IF b = 0 THEN a ELSE GCD(b, a % b)

\* The rational n/d (d > 0, n >= 0) in lowest terms.
Rat(n, d) == LET g == GCD(n, d) IN <<n \div g, d \div g>>

(***************************************************************************)
(* Texts.  A text is a sequence of runs, a run being n >= 1 copies of one  *)
(* character, so that a text of ten thousand characters is a short value;  *)
(* " " is whitespace.  String.prototype.trim removes the whitespace at     *)
(* both ends.                                                              *)
(***************************************************************************)
SP == " "

Run(c, n) == [c |-> c, n |-> n]

\* text.length
RECURSIVE Length(_)
Length(t) == IF t = <<>> THEN 0 ELSE Head(t).n + Length(Tail(t))

\* The first n characters of t.
RECURSIVE Take(_, _)
Take(t, n) ==
    IF t = <<>> \/ n <= 0 THEN <<>>
    ELSE IF Head(t).n <= n THEN <<Head(t)>> \o Take(Tail(t), n - Head(t).n)
    ELSE <<Run(Head(t).c, n)>>

\* The i-th character of t, 1 <= i <= Length(t).
RECURSIVE CharAt(_, _)
CharAt(t, i) == IF i <= Head(t).n THEN Head(t).c ELSE CharAt(Tail(t), i - Head(t).n)

\* s + t
Concat(s, t) ==
    IF s = <<>> THEN t
    ELSE IF t = <<>> THEN s
    ELSE IF s[Len(s)].c = Head(t).c
      THEN SubSeq(s, 1, Len(s) - 1) \o <<Run(Head(t).c, s[Len(s)].n + Head(t).n)>> \o Tail(t)
    ELSE s \o t

RECURSIVE TrimLeft(_)
TrimLeft(t) == IF t # <<>> /\ Head(t).c = SP THEN TrimLeft(Tail(t)) ELSE t

RECURSIVE TrimRight(_)
TrimRight(t) ==
    IF t # <<>> /\ t[Len(t)].c = SP THEN TrimRight(SubSeq(t, 1, Len(t) - 1)) ELSE t

Trim(t) == TrimRight(TrimLeft(t))

\* !input.trim() : the empty string is falsy
Blank(t) == Trim(t) = <<>>

\* What the user can type or paste, and the example snippets.  In a wide run
\* one of the texts ends in whitespace and is one character longer than the
\* limit.
Texts ==
    IF Deep THEN {<<>>, <<Run("a", 1)>>}
    ELSE {<<>>, <<Run(SP, 1)>>, <<Run("a", 1)>>, <<Run("b", TooLong), Run(SP, 1)>>}
ExampleTexts == {<<Run("a", 1)>>}

(***************************************************************************)
(* The remote service's answers to POST /analyze.  An outcome is a network *)
(* error (fetch rejects), a non-2xx status, a 2xx whose body is not JSON,  *)
(* or a 2xx with a JSON body: null, or an object in which any field may be *)
(* missing.  In part_000 the same fields are named analysis_id,            *)
(* original_text, proctoring_scan.risk_score,                              *)
(* proctoring_scan.threats_found and timestamp.                            *)
(***************************************************************************)
JNull == [kind |-> "null"]
JRaw == [kind |-> "raw"]      \* axios hands an unparseable body over as a string

Templates == {"full", "unsafe", "counts", "empty", "null"}

Data(tpl, req, sent) ==
    CASE tpl = "full" ->
           [kind |-> "object", id |-> Some([tag |-> "srv", n |-> req]),
            risk_score |-> Some(10), is_safe |-> Some(TRUE),
            threats |-> Some(<<>>), threats_detected |-> None,
            text |-> Some(sent), created_at |-> Some(req), safe_pct |-> None]
      [] tpl = "unsafe" ->
           [kind |-> "object", id |-> None,
            risk_score |-> Some(85), is_safe |-> Some(FALSE),
            threats |-> Some(<<"pii", "injection">>), threats_detected |-> None,
            text |-> None, created_at |-> None, safe_pct |-> None]
      [] tpl = "counts" ->
           [kind |-> "object", id |-> None,
            risk_score |-> Some(40), is_safe |-> None,
            threats |-> None, threats_detected |-> Some(1),
            text |-> None, created_at |-> None, safe_pct |-> None]
      [] tpl = "empty" ->
           [kind |-> "object", id |-> None,
            risk_score |-> None, is_safe |-> None,
            threats |-> None, threats_detected |-> None,
            text |-> None, created_at |-> None, safe_pct |-> None]
      [] OTHER -> JNull

Outcomes ==
    IF Deep
      THEN [kind : {"http"}, tpl : {"none"}] \cup [kind : {"ok"}, tpl : {"full", "unsafe"}]
      ELSE [kind : {"neterr", "http", "badjson"}, tpl : {"none"}]
               \cup [kind : {"ok"}, tpl : Templates]

\* The body allows a result to be built: it is an object with a risk score
\* (from which a missing verdict is derived) and a threat list or a threat
\* count.
WellFormed(d) ==
    /\ d.kind = "object"
    /\ d.risk_score # None
    /\ (d.threats # None \/ d.threats_detected # None)

\* What the service itself counts for an answered analysis.
TrueRisk(d) == IF d.kind = "object" THEN Coalesce(d.risk_score, 0) ELSE 0
TrueThreats(d) ==
    IF d.kind # "object" THEN 0
    ELSE IF d.threats # None THEN Len(d.threats[1])
    ELSE Coalesce(d.threats_detected, 0)

(***************************************************************************)
(* React state cells.  A setter called after the component has been       *)
(* unmounted stores nothing: Set(cur, new) is what the cell holds after    *)
(* the call.                                                               *)
(***************************************************************************)
Set(cur, new) == IF mounted THEN new ELSE cur

Outstanding == Cardinality(inflight)

\* The closure of one handler invocation: the input and the totalAnalyses of
\* the render in which the handler was created.
Request == [req |-> posts + 1, text |-> input, n |-> totalAnalyses]

\* The part of the state that only the statistics of part_001 hold.
localStats == <<totalAnalyses, threatsDetected, avgRiskScore>>
serverSide == <<stats, statsReqs, histReqs, server>>
ghosts == <<posts, accepted, successes, failures, sumRisk, sumThreats,
            overlapped, lateEffects>>

(***************************************************************************)
(* What the render reads.                                                  *)
(***************************************************************************)
\* App.tsx: the statistics before /stats has answered.
initialStats ==
    [total_analyses |-> 0, threats_detected |-> 0, average_risk_score |-> 0,
     safe_percentage |-> 100, threat_breakdown |-> {}, uptime_hours |-> 0]

\* part_001: const riskScore = latestResult?.risk_score ?? 0
riskScore ==
    IF latestResult.kind = "object" THEN Coalesce(latestResult.risk_score, 0) ELSE 0

\* A variant of safePct below that takes the verdict without asking whether
\* there is a result.
safePctOfVerdict ==
    IF latestResult.kind = "object"
      THEN Coalesce(latestResult.safe_pct,
                    IF latestResult.is_safe = Some(TRUE) THEN 100 ELSE 0)
      ELSE 0

\* part_001: latestResult?.safe_pct ?? (latestResult ? (latestResult.is_safe ? 100 : 0) : 100)
safePct ==
    IF latestResult.kind = "object"
      THEN Coalesce(latestResult.safe_pct,
                    IF latestResult.is_safe = Some(TRUE) THEN 100 ELSE 0)
      ELSE 100

\* part_001: const unsafePct = 100 - safePct
unsafePct == 100 - safePct

\* part_001, the summary's verdict: latestResult.is_safe ? "Content is Safe" :
\* "Threats Detected"; a missing is_safe is falsy.
summarySafe == latestResult.is_safe = Some(TRUE)

\* part_001, a history row's badge: item.is_safe ? "Safe" : "Unsafe"
rowSafe(e) == e.item.is_safe

(***************************************************************************)
(* The risk level.  A score is a rational <<num, den>> with den > 0.       *)
(***************************************************************************)
\* A variant of getSafetyLevel below whose thresholds belong to the lower level.
getSafetyLevelInclusive(s) ==
    IF s[1] <= 20 * s[2] THEN "LOW"
    ELSE IF s[1] <= 60 * s[2] THEN "MEDIUM"
    ELSE "HIGH"

\* if (score < 20) return "LOW"; if (score < 60) return "MEDIUM"; return "HIGH";
getSafetyLevel(s) ==
    IF s[1] < 20 * s[2] THEN "LOW"
    ELSE IF s[1] < 60 * s[2] THEN "MEDIUM"
    ELSE "HIGH"

Init ==
    /\ \E run \in Runs : variant = run[1] /\ regime = run[2]
    /\ mounted = TRUE
    /\ input = <<>>
    /\ isAnalyzing = FALSE
    /\ error = None
    /\ latestResult = JNull
    /\ history = <<>>
    /\ totalAnalyses = 0
    /\ threatsDetected = 0
    /\ avgRiskScore = <<0, 1>>
    /\ stats = IF variant = "App" THEN Some(initialStats) ELSE None
    /\ inflight = {}
    \* useEffect at mount: fetchStats() (part_000, App) and fetchHistory() (App)
    /\ statsReqs = IF variant = "part_001" THEN {} ELSE {0}
    /\ histReqs = IF variant = "App" THEN 1 ELSE 0
    /\ server = [total |-> 0, log |-> <<>>]
    /\ alerts = 0
    /\ posts = 0
    /\ accepted = 0
    /\ successes = 0
    /\ failures = 0
    /\ sumRisk = 0
    /\ sumThreats = 0
    /\ overlapped = FALSE
    /\ lateEffects = FALSE
    \* the first render: riskScore = latestResult?.risk_score ?? 0
    /\ score = <<0, 1>>
    /\ level = getSafetyLevel(score)
    \* the history is empty: no row
    /\ row = "none"

(***************************************************************************)
(* The text area and the example chips.                                    *)
(***************************************************************************)
\* App.tsx disables the text area and the example buttons while analyzing.
InputDisabled == variant = "App" /\ isAnalyzing

\* The value the text area hands to onChange.  With maxLength the browser
\* lets the user's edits grow the value no further than the limit; the text
\* area of App.tsx has no maxLength.
Typed(t) ==
    CASE variant = "part_001" -> Take(t, MaxLength)
      [] variant = "part_000" -> Take(t, MaxLength0)
      [] OTHER -> t

SetInput(t) ==
    /\ mounted
    /\ ~InputDisabled
    /\ input' = Typed(t)
    /\ UNCHANGED <<variant, regime, score, level, row, mounted, isAnalyzing, error, latestResult, history,
                   localStats, serverSide, inflight, alerts, ghosts>>

handleExampleClick(t) ==
    /\ mounted
    /\ ~InputDisabled
    /\ input' = t
    /\ latestResult' = IF variant = "part_001" THEN JNull ELSE latestResult
    /\ error' = IF variant = "part_001" THEN None ELSE error
    /\ UNCHANGED <<variant, regime, score, level, row, mounted, isAnalyzing, history, localStats,
                   serverSide, inflight, alerts, ghosts>>

(***************************************************************************)
(* The submit handler up to its first await.                               *)
(***************************************************************************)
\* The Analyze button's disabled attribute; App.tsx adds the length test.
AnalyzeDisabled ==
    \/ isAnalyzing
    \/ Blank(input)
    \/ variant = "App" /\ Length(input) > TooLong

\* setIsAnalyzing(true); setError(null); fetch(...)   (alike in the variants;
\* App.tsx has no error cell)
Send ==
    /\ posts < MaxCalls
    /\ Outstanding < InflightCap
    /\ isAnalyzing' = TRUE
    /\ error' = None
    /\ inflight' = inflight \cup {Request}
    /\ posts' = posts + 1
    /\ accepted' = accepted + 1
    /\ overlapped' = (overlapped \/ inflight # {})
    /\ UNCHANGED <<variant, regime, score, level, row, mounted, input, latestResult, history, localStats,
                   serverSide, alerts, successes, failures, sumRisk,
                   sumThreats, lateEffects>>

\* A variant of analyze below without the guard on the text.
analyzeUnguarded ==
    /\ variant \in {"part_001", "part_000"}
    /\ mounted
    /\ Send

\* A variant of analyze below that reports a blank text in the error cell.
analyzeComplaining ==
    /\ variant \in {"part_001", "part_000"}
    /\ mounted
    /\ IF Blank(input)
         THEN /\ error' = Some("Please enter some text to analyze")
              /\ UNCHANGED <<variant, regime, score, level, row, mounted, input, isAnalyzing,
                             latestResult, history, localStats, serverSide,
                             inflight, alerts, ghosts>>
         ELSE Send

\* part_001 and part_000:  if (!input.trim()) return;
analyze ==
    /\ variant \in {"part_001", "part_000"}
    /\ mounted
    /\ IF Blank(input) THEN UNCHANGED vars ELSE Send

\* App.tsx:  if (!inputText.trim()) { alert(...); return; }
analyzeText ==
    /\ variant = "App"
    /\ mounted
    /\ IF Blank(input)
         THEN /\ alerts < MaxAlerts
              /\ alerts' = alerts + 1
              /\ UNCHANGED <<variant, regime, score, level, row, mounted, input, isAnalyzing, error,
                             latestResult, history, localStats, serverSide,
                             inflight, ghosts>>
         ELSE Send

\* A click on the Analyze button runs the handler unless the button is disabled.
ClickAnalyze ==
    /\ ~AnalyzeDisabled
    /\ (analyze \/ analyzeText)

(***************************************************************************)
(* part_001: the handler after its awaits.                                 *)
(***************************************************************************)
\* const risk = data.risk_score ?? 0
Risk(d) == Coalesce(d.risk_score, 0)

\* A variant of ThreatsCount below that reads the threat list only.
ThreatsCountListOnly(d) == IF d.threats # None THEN Len(d.threats[1]) ELSE 0

\* Array.isArray(data.threats) ? data.threats.length : (data.threats_detected ?? 0)
ThreatsCount(d) ==
    IF d.threats # None THEN Len(d.threats[1]) ELSE Coalesce(d.threats_detected, 0)

\* A variant of the updater below that averages the old mean with the new
\* score, whatever the number of results.
NextAvgUnweighted(prevAvg, n, risk) ==
    IF n = 0 THEN Rat(risk, 1) ELSE Rat(prevAvg[1] + risk * prevAvg[2], prevAvg[2] * 2)

\* The setAvgRiskScore updater; n is the totalAnalyses the closure captured.
NextAvg(prevAvg, n, risk) ==
    IF n = 0 THEN Rat(risk, 1)
    ELSE Rat(prevAvg[1] * n + risk * prevAvg[2], prevAvg[2] * (n + 1))

\* new Date(): the client's clock, read at completion
Now == successes + failures + 1

\* A variant of HistoryEntry below that reads the input cell as it is when the
\* answer arrives.
HistoryEntryOfCurrentInput(d, prev, sent) ==
    [id |-> Coalesce(d.id, [tag |-> "SA", n |-> Len(prev) + 1]),
     created_at |-> Coalesce(d.created_at, Now),
     text |-> Coalesce(d.text, input),
     risk_score |-> Risk(d),
     is_safe |-> Coalesce(d.is_safe, Risk(d) < 20)]

\* The object the setHistory updater builds; sent is the input the handler's
\* closure captured, which is the text it posted.
HistoryEntry(d, prev, sent) ==
    [id |-> Coalesce(d.id, [tag |-> "SA", n |-> Len(prev) + 1]),
     created_at |-> Coalesce(d.created_at, Now),
     text |-> Coalesce(d.text, sent),
     risk_score |-> Risk(d),
     is_safe |-> Coalesce(d.is_safe, Risk(d) < 20)]

\* A variant of Push below that adds the new item at the end.
PushLast(prev, item, cap) ==
    SubSeq(prev \o <<[item |-> item, ord |-> successes + 1]>>, 1,
           Min(cap, Len(prev) + 1))

\* A variant of Push below that keeps one element fewer.
PushEvictEarly(prev, item, cap) ==
    SubSeq(<<[item |-> item, ord |-> successes + 1]>> \o prev, 1,
           Min(cap - 1, Len(prev) + 1))

\* [item, ...prev].slice(0, cap).  Each element carries, beside the item the
\* code stores, the ordinal of the completion that produced it.
Push(prev, item, cap) ==
    SubSeq(<<[item |-> item, ord |-> successes + 1]>> \o prev, 1,
           Min(cap, Len(prev) + 1))

\* err.message || "Something went wrong while analyzing."
ErrorMessage(out) ==
    CASE out.kind = "neterr" -> "Failed to fetch"
      [] out.kind = "http" -> "API responded with 500"
      [] out.kind = "badjson" -> "Unexpected token"
      [] OTHER -> "Cannot read properties of null"

\* A variant of Finally below that releases the flag after the try block only.
FinallyAfterTryOnly ==
    isAnalyzing' = IF failures' = failures THEN Set(isAnalyzing, FALSE) ELSE isAnalyzing

\* finally { setIsAnalyzing(false) }  (setAnalyzing in App.tsx); it follows the
\* try block and the catch block alike.
Finally == isAnalyzing' = Set(isAnalyzing, FALSE)

\* The try block ran to its end: lines 80-105.
analyzeThen(r, d) ==
    /\ inflight' = inflight \ {r}
    /\ latestResult' = Set(latestResult, d)
    /\ totalAnalyses' = Set(totalAnalyses, totalAnalyses + 1)
    /\ threatsDetected' = Set(threatsDetected, threatsDetected + ThreatsCount(d))
    /\ avgRiskScore' = Set(avgRiskScore, NextAvg(avgRiskScore, r.n, Risk(d)))
    /\ history' = Set(history, Push(history, HistoryEntry(d, history, r.text), KeepLast))
    /\ successes' = successes + 1
    /\ sumRisk' = sumRisk + TrueRisk(d)
    /\ sumThreats' = sumThreats + TrueThreats(d)
    /\ UNCHANGED <<error, failures, posts>>

\* A variant of the catch block below that also counts the failed analysis.
analyzeCatchCounting(r, out) ==
    /\ inflight' = inflight \ {r}
    /\ latestResult' = IF out.kind = "ok" THEN Set(latestResult, JNull) ELSE latestResult
    /\ error' = Set(error, Some(ErrorMessage(out)))
    /\ totalAnalyses' = Set(totalAnalyses, totalAnalyses + 1)
    /\ failures' = failures + 1
    /\ UNCHANGED <<history, threatsDetected, avgRiskScore, successes, sumRisk,
                   sumThreats, posts>>

\* A variant of the catch block below that sends the request again.
analyzeCatchRetry(r, out) ==
    /\ inflight' = inflight
    /\ posts' = posts + 1
    /\ latestResult' = IF out.kind = "ok" THEN Set(latestResult, JNull) ELSE latestResult
    /\ error' = Set(error, Some(ErrorMessage(out)))
    /\ failures' = failures + 1
    /\ UNCHANGED <<history, localStats, successes, sumRisk, sumThreats>>

\* The catch block: lines 106-108.  With a null body setLatestResult(data) on
\* line 80 has run before data.risk_score throws on line 83.
analyzeCatch(r, out) ==
    /\ inflight' = inflight \ {r}
    /\ latestResult' = IF out.kind = "ok" THEN Set(latestResult, JNull) ELSE latestResult
    /\ error' = Set(error, Some(ErrorMessage(out)))
    /\ failures' = failures + 1
    /\ UNCHANGED <<history, localStats, successes, sumRisk, sumThreats, posts>>

analyzeSettled(r, out) ==
    /\ variant = "part_001"
    /\ r \in inflight
    /\ LET d == Data(out.tpl, r.req, r.text) IN
         IF out.kind = "ok" /\ d.kind = "object"
           THEN analyzeThen(r, d)
           ELSE analyzeCatch(r, out)
    /\ Finally
    /\ UNCHANGED <<variant, regime, score, level, row, mounted, input, serverSide, alerts,
                   accepted, overlapped, lateEffects>>

(***************************************************************************)
(* The remote service.                                                     *)
(***************************************************************************)
\* The service answers one more analysis (request r) and records it; GET /history
\* returns its newest HistoryLimit records.
Answered(r) ==
    [total |-> server.total + 1,
     log |-> IF variant = "App"
               THEN SubSeq(<<[item |-> [id |-> [tag |-> "srv", n |-> r.req]],
                              ord |-> server.total + 1]>> \o server.log,
                           1, Min(HistoryLimit, Len(server.log) + 1))
               ELSE server.log]

\* An effect that reaches outside the component, counted when it happens
\* after teardown.
Late == lateEffects \/ ~mounted

(***************************************************************************)
(* part_000: the handler after its awaits.                                 *)
(***************************************************************************)
\* Lines 111-118: setLatestResult(data); setHistory(...); fetchStats()
analyzeThen0(r, d) ==
    /\ inflight' = inflight \ {r}
    /\ server' = Answered(r)
    /\ latestResult' = Set(latestResult, d)
    /\ history' = Set(history, Push(history, d, KeepLast0))
    /\ statsReqs' = statsReqs \cup {server'.total}
    /\ Cardinality(statsReqs') <= PendingCap
    /\ successes' = successes + 1
    /\ lateEffects' = Late
    /\ UNCHANGED <<error, failures, posts>>

\* Lines 119-120: setError(err.message || "Analysis failed")
analyzeCatch0(r, out) ==
    /\ inflight' = inflight \ {r}
    /\ error' = Set(error, Some(ErrorMessage(out)))
    /\ failures' = failures + 1
    /\ UNCHANGED <<latestResult, history, statsReqs, server, successes,
                   lateEffects, posts>>

analyzeSettled0(r, out) ==
    /\ variant = "part_000"
    /\ r \in inflight
    /\ IF out.kind = "ok"
         THEN analyzeThen0(r, Data(out.tpl, r.req, r.text))
         ELSE analyzeCatch0(r, out)
    /\ Finally
    /\ UNCHANGED <<variant, regime, score, level, row, mounted, input, localStats, stats, histReqs,
                   alerts, accepted, sumRisk, sumThreats, overlapped>>

(***************************************************************************)
(* App.tsx: the handler after its await.  axios rejects on a network error *)
(* and on a non-2xx status; a 2xx body that is not JSON arrives as text.   *)
(***************************************************************************)
\* Lines 106-108: setResult(response.data); fetchStats(); fetchHistory()
analyzeTextThen(r, d) ==
    /\ inflight' = inflight \ {r}
    /\ server' = Answered(r)
    /\ latestResult' = Set(latestResult, d)
    /\ statsReqs' = statsReqs \cup {server'.total}
    /\ histReqs' = histReqs + 1
    /\ Cardinality(statsReqs') <= PendingCap
    /\ histReqs' <= PendingCap
    /\ successes' = successes + 1
    /\ lateEffects' = Late
    /\ UNCHANGED <<alerts, failures, posts>>

\* Lines 109-111: alert(...)
analyzeTextCatch(r, out) ==
    /\ inflight' = inflight \ {r}
    /\ alerts < MaxAlerts
    /\ alerts' = alerts + 1
    /\ failures' = failures + 1
    /\ lateEffects' = Late
    /\ UNCHANGED <<latestResult, statsReqs, histReqs, server, successes, posts>>

analyzeTextSettled(r, out) ==
    /\ variant = "App"
    /\ r \in inflight
    /\ IF out.kind \in {"ok", "badjson"}
         THEN analyzeTextThen(r, IF out.kind = "ok"
                                   THEN Data(out.tpl, r.req, r.text) ELSE JRaw)
         ELSE analyzeTextCatch(r, out)
    /\ Finally
    /\ UNCHANGED <<variant, regime, score, level, row, mounted, input, error, history, localStats, stats,
                   accepted, sumRisk, sumThreats, overlapped>>

(***************************************************************************)
(* GET /stats and GET /history.  A /stats request carries the answer the   *)
(* service computed when it was sent, and answers arrive in any order; a   *)
(* /history request is answered from the service's log as it is on         *)
(* arrival.                                                                *)
(***************************************************************************)
\* A variant of fetchStatsSettled below that clears the statistics when the
\* fetch fails.
fetchStatsSettledClearing(q, ok) ==
    /\ q \in statsReqs
    /\ statsReqs' = statsReqs \ {q}
    /\ stats' = IF ok THEN Set(stats, Some([total_analyses |-> q])) ELSE Set(stats, None)
    /\ UNCHANGED <<variant, regime, score, level, row, mounted, input, isAnalyzing, error,
                   latestResult, history, localStats, inflight, histReqs, server,
                   alerts, ghosts>>

\* part_000 lines 85-95 (res.ok checked), App.tsx lines 76-83.  Of the answer
\* only total_analyses is modelled; its other fields are the service's.
fetchStatsSettled(q, ok) ==
    /\ q \in statsReqs
    /\ statsReqs' = statsReqs \ {q}
    /\ stats' = IF ok THEN Set(stats, Some([total_analyses |-> q])) ELSE stats
    /\ UNCHANGED <<variant, regime, score, level, row, mounted, input, isAnalyzing, error, latestResult,
                   history, localStats, inflight, histReqs, server, alerts, ghosts>>

\* App.tsx lines 85-92: setHistory(response.data.analyses || [])
fetchHistorySettled(ok) ==
    /\ histReqs > 0
    /\ histReqs' = histReqs - 1
    /\ history' = IF ok THEN Set(history, server.log) ELSE history
    /\ UNCHANGED <<variant, regime, score, level, row, mounted, input, isAnalyzing, error, latestResult,
                   localStats, stats, inflight, statsReqs, server, alerts, ghosts>>

\* The component is unmounted.
Teardown ==
    /\ mounted
    /\ mounted' = FALSE
    /\ UNCHANGED <<variant, regime, score, level, row, input, isAnalyzing, error, latestResult, history,
                   localStats, serverSide, inflight, alerts, ghosts>>

Next ==
    \/ \E t \in Texts : SetInput(t)
    \/ \E t \in ExampleTexts : handleExampleClick(t)
    \/ analyze
    \/ analyzeText
    \/ ClickAnalyze
    \/ \E r \in inflight, out \in Outcomes : analyzeSettled(r, out)
    \/ \E r \in inflight, out \in Outcomes : analyzeSettled0(r, out)
    \/ \E r \in inflight, out \in Outcomes : analyzeTextSettled(r, out)
    \/ \E q \in statsReqs, ok \in BOOLEAN : fetchStatsSettled(q, ok)
    \/ \E ok \in BOOLEAN : fetchHistorySettled(ok)
    \/ Teardown

Spec == Init /\ [][Next]_vars

(***************************************************************************)
(* getSafetyLevel on its own: a score is drawn, in tenths of a point, from *)
(* [0, 100] and a margin on both sides, and the function is applied to it. *)
(***************************************************************************)
Scores == {<<n, 10>> : n \in (0 - ScoreSpan)..(1000 + ScoreSpan)}

LevelInit ==
    /\ variant = "part_001"
    /\ regime = "wide"
    /\ mounted = TRUE
    /\ input = <<>>
    /\ isAnalyzing = FALSE
    /\ error = None
    /\ latestResult = JNull
    /\ history = <<>>
    /\ totalAnalyses = 0
    /\ threatsDetected = 0
    /\ avgRiskScore = <<0, 1>>
    /\ stats = None
    /\ inflight = {}
    /\ statsReqs = {}
    /\ histReqs = 0
    /\ server = [total |-> 0, log |-> <<>>]
    /\ alerts = 0
    /\ posts = 0
    /\ accepted = 0
    /\ successes = 0
    /\ failures = 0
    /\ sumRisk = 0
    /\ sumThreats = 0
    /\ overlapped = FALSE
    /\ lateEffects = FALSE
    /\ score \in Scores
    /\ level = "none"
    /\ row = "none"

\* const level = getSafetyLevel(riskScore)
Classify ==
    /\ level = "none"
    /\ level' = getSafetyLevel(score)
    /\ UNCHANGED <<variant, regime, mounted, input, isAnalyzing, error, latestResult,
                   history, localStats, serverSide, inflight, alerts, ghosts, score, row>>

LevelNext == Classify

LevelSpec == LevelInit /\ [][LevelNext]_vars

(***************************************************************************)
(* The text of a history row on its own: an entry is drawn whose text is   *)
(* at most RowSpan characters shorter or longer than the row limit, with a *)
(* change of character at the limit or near it, and the row is rendered.   *)
(***************************************************************************)
\* U+2026, the one character part_001 appends; part_000 appends three dots.
Ellipsis == "U+2026"
Dot == "."

\* The text an entry holds: item.text in part_001, item.original_text in
\* part_000.
StoredText(e) == IF variant = "part_000" THEN e.item.text[1] ELSE e.item.text

\* A variant of historyText below that cuts a text of exactly the limit too.
historyTextFromLimit(t) ==
    CASE variant = "part_001" ->
           IF Length(t) >= RowLimit
             THEN Concat(Take(t, RowLimit), <<Run(Ellipsis, 1)>>) ELSE t
      [] variant = "part_000" ->
           IF Length(t) >= RowLimit0
             THEN Concat(Take(t, RowLimit0), <<Run(Dot, 3)>>) ELSE t
      [] OTHER -> t

\* part_001: item.text.length > 120 ? item.text.slice(0, 120) + "…" : item.text
\* part_000: item.original_text.length > 80
\*             ? item.original_text.slice(0, 80) + "..." : item.original_text
historyText(t) ==
    CASE variant = "part_001" ->
           IF Length(t) > RowLimit
             THEN Concat(Take(t, RowLimit), <<Run(Ellipsis, 1)>>) ELSE t
      [] variant = "part_000" ->
           IF Length(t) > RowLimit0
             THEN Concat(Take(t, RowLimit0), <<Run(Dot, 3)>>) ELSE t
      [] OTHER -> t

\* The texts of the rows: n times "a", then m times "b".
RowTexts(limit) ==
    {Concat(<<Run("a", n)>>, IF m = 0 THEN <<>> ELSE <<Run("b", m)>>) :
        n \in (limit - RowSpan)..(limit + RowSpan), m \in 0..RowSpan}

RowInit ==
    /\ variant \in {"part_001", "part_000"}
    /\ regime = "wide"
    /\ mounted = TRUE
    /\ input = <<>>
    /\ isAnalyzing = FALSE
    /\ error = None
    /\ successes = 0
    /\ \E t \in RowTexts(IF variant = "part_001" THEN RowLimit ELSE RowLimit0) :
         LET d == Data("full", 1, t) IN
           /\ latestResult = d
           /\ history = IF variant = "part_001"
                          THEN Push(<<>>, HistoryEntry(d, <<>>, t), KeepLast)
                          ELSE Push(<<>>, d, KeepLast0)
    /\ totalAnalyses = 0
    /\ threatsDetected = 0
    /\ avgRiskScore = <<0, 1>>
    /\ stats = None
    /\ inflight = {}
    /\ statsReqs = {}
    /\ histReqs = 0
    /\ server = [total |-> 0, log |-> <<>>]
    /\ alerts = 0
    /\ posts = 0
    /\ accepted = 0
    /\ failures = 0
    /\ sumRisk = 0
    /\ sumThreats = 0
    /\ overlapped = FALSE
    /\ lateEffects = FALSE
    /\ score = <<0, 1>>
    /\ level = "none"
    /\ row = "none"

\* The render of the newest entry's row.
RenderRow ==
    /\ row = "none"
    /\ row' = historyText(StoredText(history[1]))
    /\ UNCHANGED <<variant, regime, mounted, input, isAnalyzing, error, latestResult,
                   history, localStats, serverSide, inflight, alerts, ghosts, score,
                   level>>

RowNext == RenderRow

RowSpec == RowInit /\ [][RowNext]_vars

(***************************************************************************)
(* Properties.                                                             *)
(***************************************************************************)
Local == variant = "part_001"
Ring == variant \in {"part_001", "part_000"}

\* C1: in part_001, as long as the submissions were made one at a time,
\* avgRiskScore is the mean of the risk scores of all successful
\* submissions so far (avgRiskScore * totalAnalyses = their sum), failed
\* submissions and evicted history entries notwithstanding.
C1_RunningMean ==
    (Local /\ mounted /\ ~overlapped) =>
        avgRiskScore[1] * totalAnalyses = sumRisk * avgRiskScore[2]

\* Six results folded, so one is no longer in the history, a failure in
\* between, and a mean that is not a whole number.
C1_Witness ==
    /\ Local /\ mounted /\ ~overlapped
    /\ successes >= 6
    /\ failures >= 1
    /\ avgRiskScore[2] > 1

\* C2: in part_000 and part_001 the history holds min(k, 5) elements after k
\* successful submissions, and an element at a lower index comes from a
\* later completion.
C2_HistoryRing ==
    (Ring /\ mounted) =>
        /\ Len(history) = Min(successes, 5)
        /\ \A i, j \in 1..Len(history) : i < j => history[i].ord > history[j].ord

\* More successes than the history holds.
C2_Witness ==
    /\ Ring /\ mounted
    /\ successes >= 6
    /\ Len(history) = 5

\* C3: a submission that fails leaves totalAnalyses, threatsDetected,
\* avgRiskScore, the server-read statistics and the history as they were,
\* both when it is sent and when its failure arrives.
C3_FailureLeavesState ==
    [][(posts' = posts + 1 \/ failures' = failures + 1) =>
          UNCHANGED <<totalAnalyses, threatsDetected, avgRiskScore, stats, history>>]_vars

\* A failure has just arrived in a session that already holds results.
C3_Witness ==
    /\ Ring /\ mounted /\ ~overlapped
    /\ inflight = {}
    /\ error # None
    /\ failures >= 1
    /\ Len(history) >= 1

\* C4: at every moment at most one analysis request is outstanding: an
\* invocation of the submit handler while a request is in flight sends
\* nothing.
C4_SingleOutstanding == Outstanding <= 1

\* C5: submitting a text that is empty after trimming sends no request and
\* changes no state: no request ever carries such a text, and a handler
\* invocation on such a text leaves the busy flag, the error, the latest
\* result, the history, the statistics and the outstanding requests alone.
C5_BlankIsNoOp ==
    /\ [](\A r \in inflight : ~Blank(r.text))
    /\ [][(Blank(input) /\ (analyze \/ analyzeText)) =>
             UNCHANGED <<input, isAnalyzing, error, latestResult, history,
                         totalAnalyses, threatsDetected, avgRiskScore, stats,
                         inflight, statsReqs, histReqs, posts, accepted>>]_vars

\* App.tsx has answered a submission of a blank text (its alert is the only
\* trace) in a session that already holds a result.
C5_Witness ==
    /\ variant = "App" /\ mounted
    /\ Blank(input)
    /\ alerts = 1
    /\ failures = 0
    /\ successes >= 1
    /\ posts = accepted

\* C6: an accepted submit sets the busy flag, every completion of a request
\* (success, error status, network error, exception on the body) clears it,
\* and it is clear whenever no request is outstanding, so the Analyze button
\* is enabled again for a non-blank text (of at most 10,000 characters in
\* App.tsx, whose button has a length test of its own).
C6_BusyReleased ==
    /\ []((mounted /\ inflight = {}) =>
             /\ ~isAnalyzing
             /\ (~Blank(input) /\ Length(input) <= 10000) => ~AnalyzeDisabled)
    /\ [][/\ (mounted /\ posts' = posts + 1) => isAnalyzing'
          /\ (mounted /\ (successes' # successes \/ failures' # failures)) => ~isAnalyzing']_vars

\* A submit has been accepted after an earlier one failed.
C6_Witness ==
    /\ mounted /\ ~overlapped
    /\ isAnalyzing
    /\ failures >= 1
    /\ successes >= 1

\* C7: the number of analysis requests sent equals the number of handler
\* calls that passed the text guard, however many of them failed.
C7_OneRequestPerCall == posts = accepted

\* Several calls have failed and more have been made since.
C7_Witness ==
    /\ failures >= 2
    /\ posts >= 4
    /\ successes >= 1

\* A 2xx answer whose body fails normalization: unparseable, null, or an object
\* from which no risk score or no threat list can be had.
Malformed(r, out) ==
    \/ out.kind = "badjson"
    \/ out.kind = "ok" /\ ~WellFormed(Data(out.tpl, r.req, r.text))

\* C8: in part_000 and part_001 a 2xx answer with a malformed body is a
\* failure: it leaves the history and the statistics alone and sets the
\* error.
C8_MalformedIsFailure ==
    [][\A r \in inflight, out \in Outcomes :
          (Malformed(r, out) /\ (analyzeSettled(r, out) \/ analyzeSettled0(r, out))) =>
              /\ UNCHANGED <<history, totalAnalyses, threatsDetected, avgRiskScore>>
              /\ mounted => error' # None]_vars

C10_Counters ==
    (Local /\ mounted) =>
        /\ totalAnalyses = successes
        /\ threatsDetected = sumThreats

\* Several successes with threats, more than the history holds, and a failure.
C10_Witness ==
    /\ Local /\ mounted
    /\ totalAnalyses >= 6
    /\ threatsDetected >= 4
    /\ failures >= 1

\* C12: in part_001 the entries of the history have pairwise distinct ids,
\* also when the service sends no id and the id is made up from the length
\* of the history, and after more submissions than the history holds.
C12_DistinctIds ==
    (Local /\ mounted) =>
        \A i, j \in 1..Len(history) :
            i # j => history[i].item.id # history[j].item.id

\* C13: no analysis request carries a text longer than 10,000 characters.
C13_SentWithinLimit == \A r \in inflight : Length(r.text) <= 10000

\* The order of the levels.
Rank(l) == CASE l = "LOW" -> 1 [] l = "MEDIUM" -> 2 [] l = "HIGH" -> 3 [] OTHER -> 0

\* C14: getSafetyLevel returns LOW for a score below 20, MEDIUM for a score
\* from 20 up to but not including 60, and HIGH for a score of 60 or more;
\* it returns one of the three for scores outside [0, 100] too, and a score
\* that is no higher than another gets a level that is no higher.
C14_Boundaries ==
    level # "none" =>
        /\ level \in {"LOW", "MEDIUM", "HIGH"}
        /\ level = "LOW" <=> score[1] < 20 * score[2]
        /\ level = "MEDIUM" <=> (20 * score[2] <= score[1] /\ score[1] < 60 * score[2])
        /\ level = "HIGH" <=> score[1] >= 60 * score[2]
        /\ score = <<199, 10>> => level = "LOW"
        /\ score = <<200, 10>> => level = "MEDIUM"
        /\ score = <<599, 10>> => level = "MEDIUM"
        /\ score = <<600, 10>> => level = "HIGH"
        /\ \A s \in Scores :
               s[1] * score[2] <= score[1] * s[2] => Rank(getSafetyLevel(s)) <= Rank(level)

\* 59.9 has been classified.
C14_Witness == score = <<599, 10>> /\ level = "MEDIUM"

\* C15: as long as no result has been folded the statistics shown are the
\* defaults: in part_001 the two counts, the mean and the risk score are 0,
\* the safe percentage is 100 and the unsafe percentage 0, and the mean is
\* never a quotient by zero; in App.tsx, until /stats has answered, the
\* counts and the mean are 0 and the safe percentage is 100.
C15_Sentinels ==
    /\ avgRiskScore[2] > 0
    /\ (Local /\ totalAnalyses = 0) =>
           /\ threatsDetected = 0
           /\ avgRiskScore = <<0, 1>>
           /\ riskScore = 0
           /\ safePct = 100
           /\ unsafePct = 0
    /\ (variant = "App" /\ 0 \in statsReqs /\ server.total = 0) =>
           /\ stats # None
           /\ stats[1].total_analyses = 0
           /\ stats[1].threats_detected = 0
           /\ stats[1].average_risk_score = 0
           /\ stats[1].safe_percentage = 100
           /\ 100 - stats[1].safe_percentage = 0

\* part_001 has been used, and every submission failed: there is still no
\* result.
C15_Witness ==
    /\ Local /\ mounted
    /\ totalAnalyses = 0
    /\ failures >= 2
    /\ error # None

\* C16: a /stats or /history fetch that fails leaves the statistics and the
\* history as they were, and changes neither the busy flag, nor the latest
\* result, nor the error, nor the input, nor whether the Analyze button is
\* enabled.
C16_SeedOptional ==
    [][((\E q \in statsReqs : fetchStatsSettled(q, FALSE)) \/ fetchHistorySettled(FALSE)) =>
          /\ UNCHANGED <<stats, history, isAnalyzing, latestResult, error, input, inflight>>
          /\ AnalyzeDisabled' <=> AnalyzeDisabled]_vars

\* App.tsx: every /stats and /history fetch has failed, so the statistics and
\* the history are the defaults although the service has answered an
\* analysis, and a further submission is under way.
C16_Witness ==
    /\ variant = "App" /\ mounted
    /\ statsReqs = {} /\ histReqs = 0
    /\ successes >= 1
    /\ stats = Some(initialStats)
    /\ history = <<>>
    /\ isAnalyzing

C18_FailureKeepsLatest ==
    [][(Ring /\ mounted /\ failures' = failures + 1) =>
          (error' # None /\ latestResult' = latestResult)]_vars

\* C19: in part_000 and part_001 a push puts the new entry first and leaves
\* behind it the entries that were there, each as it was and in the order
\* they had; it drops the last one, and only that one, exactly when the
\* history already held 5.  No other step changes the history.
C19_PushKeepsOthers ==
    [][(Ring /\ mounted) =>
          IF successes' = successes + 1
            THEN /\ Len(history') >= 1
                 /\ Tail(history') =
                        IF Len(history) >= 5 THEN SubSeq(history, 1, 4) ELSE history
            ELSE history' = history]_vars

\* Two entries have been evicted, one push at a time.
C19_Witness ==
    /\ Ring /\ mounted
    /\ successes = 7
    /\ Len(history) = 5
    /\ history[5].ord = 3

Marker == IF variant = "part_001" THEN <<Run(Ellipsis, 1)>> ELSE <<Run(Dot, 3)>>
Limit == IF variant = "part_001" THEN 120 ELSE 80

\* C21: a history row shows a text of at most 120 characters (80 in
\* part_000) as it is, and a longer one as its first 120 (80) characters
\* followed by the marker and nothing else; rendering the row leaves the
\* entry in the history as it was.
C21_Truncation ==
    /\ [](row # "none" =>
            LET t == StoredText(history[1]) IN
              IF Length(t) <= Limit
                THEN row = t
                ELSE /\ Length(row) = Limit + Length(Marker)
                     /\ \A i \in 1..Limit : CharAt(row, i) = CharAt(t, i)
                     /\ \A i \in 1..Length(Marker) :
                            CharAt(row, Limit + i) = CharAt(Marker, i))
    /\ [][RenderRow => history' = history]_vars

\* part_001 has rendered a row for a text of 121 characters whose last
\* character differs from the one before it.
C21_Witness ==
    /\ variant = "part_001"
    /\ row # "none"
    /\ StoredText(history[1]) = <<Run("a", 120), Run("b", 1)>>
    /\ row = <<Run("a", 120), Run(Ellipsis, 1)>>

\* C22: in part_001, whenever no request is outstanding, avgRiskScore is the
\* mean of the risk scores folded so far (avgRiskScore * totalAnalyses =
\* their sum), also after handler invocations that overlapped.
C22_MeanUnderOverlap ==
    (Local /\ mounted /\ inflight = {}) =>
        avgRiskScore[1] * totalAnalyses = sumRisk * avgRiskScore[2]

\* C23: in part_000 and App.tsx the total_analyses shown never decreases: an
\* answer to an earlier /stats request that arrives after the answer to a
\* later one does not replace it.
C23_StatsNeverGoBack ==
    [][(variant \in {"part_000", "App"} /\ stats # None /\ stats' # None) =>
          stats'[1].total_analyses >= stats[1].total_analyses]_vars

\* C24: in part_000 and part_001 the error is null whenever an analysis
\* request is outstanding.
C24_NoErrorInFlight ==
    (Ring /\ mounted /\ inflight # {}) => error = None

\* C25: in part_000 and part_001, whenever there is a latest result the
\* newest history entry comes from the same answer: in part_000 it is that
\* answer, and in part_001 it carries the risk score and the verdict that
\* the summary shows for the latest result.
C25_LatestMatchesNewest ==
    (Ring /\ mounted /\ latestResult.kind = "object") =>
        /\ Len(history) >= 1
        /\ variant = "part_000" => history[1].item = latestResult
        /\ variant = "part_001" =>
               /\ history[1].item.risk_score = riskScore
               /\ rowSafe(history[1]) = summarySafe

====
